---- MODULE Spec2Model ----
(***************************************************************************)
(* Model of the patient_records_backend canister (lib.rs): three stable    *)
(* maps (hospitals, doctors, patients), one shared id counter, and the     *)
(* update / query entry points that read and write them.  Every entry      *)
(* point runs to completion (the canister is single threaded), so each is  *)
(* one atomic action.  A handler is an operator from the store and the     *)
(* payload to the store after the call and the value returned.             *)
(***************************************************************************)
EXTENDS Integers, Sequences, FiniteSets, TLC

VARIABLES
    ID_COUNTER,         \* the u64 held by the IdCell
    HOSPITAL_STORAGE,   \* StableBTreeMap<u64, Hospital>: function id -> record
    DOCTOR_STORAGE,     \* StableBTreeMap<u64, Doctor>
    PATIENT_STORAGE,    \* StableBTreeMap<u64, Patient>
    last                \* the entry point called last and what it returned

vars == <<ID_COUNTER, HOSPITAL_STORAGE, DOCTOR_STORAGE, PATIENT_STORAGE, last>>

(***************************************************************************)
(* Bounds of the exploration.                                              *)
(***************************************************************************)
MaxIds == 3             \* ids handed out by the counter: 0 .. MaxIds-1
MaxLinks == 2           \* longest relationship list explored
MaxHistoryLen == 64     \* longest history explored, in characters

(***************************************************************************)
(* Inputs the callers may send.                                            *)
(***************************************************************************)
Ids == 0..MaxIds
Names == {"ab", "Ann"}
Addresses == {"St", "Main St"}
Cities == {"Rome"}
Passwords == {"", "pass"}
Histories == {"none", "healthy"}
NewHistories == {"flu"}
Times == {7}

HospitalPayloads ==
    [name : Names, address : Addresses, password : Passwords, city : Cities]
PatientPayloads == [name : Names, history : Histories, password : Passwords]
EditPatientPayloads(ids) == [name : Names, password : Passwords, patient_id : ids]
AddPatientToDoctors(dids, pids) ==
    [doctor_id : dids, patient_id : pids,
     doctor_password : Passwords, patient_password : Passwords]
PatientHistoryUpdates(dids, pids) ==
    [doctor_id : dids, patient_id : pids,
     doctor_password : Passwords, new_history : NewHistories]
EditDoctors(dids, hids) ==
    [name : Names, doctor_id : dids, hospital_id : hids,
     doctor_password : Passwords, hospital_password : Passwords]
DoctorPayloads(hids) ==
    [name : Names, hospital_id : hids, password : Passwords,
     hospital_password : Passwords]
EditHospitalPayloads(ids) == [hospital_id : ids, name : Names, password : Passwords]
AccessPayloads(dids, pids) ==
    [doctor_id : dids, patient_id : pids, doctor_password : Passwords]

(***************************************************************************)
(* The store the handlers work on, and what a handler yields.              *)
(***************************************************************************)
Store ==
    [counter |-> ID_COUNTER, hospitals |-> HOSPITAL_STORAGE,
     doctors |-> DOCTOR_STORAGE, patients |-> PATIENT_STORAGE]

\* StableBTreeMap::get is Some exactly for the keys of the map.
IsSome(map, k) == k \in DOMAIN map

\* StableBTreeMap::insert: the map afterwards (the previous value it returns
\* is Some exactly when IsSome held before).  A record whose encoding
\* exceeds MAX_SIZE (1024 bytes) makes insert trap, which undoes the whole
\* call; the records explored here stay well below that size.
Insert(map, k, v) == [x \in DOMAIN map \cup {k} |-> IF x = k THEN v ELSE map[x]]

\* Vec::contains as a bug would have it: a patient nobody treats yet is open.
Contains_OrEmpty(seq, x) == seq = <<>> \/ \E i \in 1..Len(seq) : seq[i] = x

\* Vec::contains
Contains(seq, x) == \E i \in 1..Len(seq) : seq[i] = x

Ok(s, op, value) ==
    [st |-> s, res |-> [op |-> op, kind |-> "Ok", msg |-> "", value |-> value]]
Err(s, op, kind, msg) ==
    [st |-> s, res |-> [op |-> op, kind |-> kind, msg |-> msg, value |-> "-"]]

\* The text the validator crate renders for a rejected payload.
ValidationMsg == "ValidationErrors"

\* The password shown by the public reads.
Masked == "-"

\* The password test as a bug would have it: an empty supplied password passes.
PasswordMismatch_Never(stored, supplied) == FALSE
PasswordMismatch_EmptyBypass(stored, supplied) == stored # supplied /\ supplied # ""

\* The password test every gated handler makes: exact string inequality.
PasswordMismatch(stored, supplied) == stored # supplied

\* The allocation as a bug would have it: the cell is written back unchanged.
Allocate_Stuck(s) == [id |-> 0, st |-> [s EXCEPT !.counter = s.counter + 1]]
Allocate_NoBump(s) == [id |-> s.counter, st |-> s]

\* ID_COUNTER.with(..): the id is the value the cell held (Cell::set returns
\* the previous value) and the cell then holds one more.  The explored ids
\* stay far below 2^64, where the addition would overflow.
Allocate(s) == [id |-> s.counter, st |-> [s EXCEPT !.counter = s.counter + 1]]

(***************************************************************************)
(* Payload validation (the derive(Validate) length attributes).            *)
(***************************************************************************)
ValidHospitalPayload(payload) == Len(payload.name) >= 3 /\ Len(payload.address) >= 3
ValidPatientPayload(payload) == Len(payload.name) >= 3 /\ Len(payload.history) >= 6
ValidDoctorPayload(payload) == Len(payload.name) >= 3 /\ Len(payload.password) >= 4

(***************************************************************************)
(* Hospitals.                                                              *)
(***************************************************************************)
\* The new hospital as a bug would have it: the city stored as the address.
NewHospital_City(id, payload) ==
    [id |-> id, name |-> payload.name, address |-> payload.city,
     password |-> payload.password, patients_ids |-> <<>>, doctors_ids |-> <<>>]

NewHospital(id, payload) ==
    [id |-> id, name |-> payload.name, address |-> payload.address,
     password |-> payload.password, patients_ids |-> <<>>, doctors_ids |-> <<>>]

add_hospital(s, payload) ==
    IF ~ValidHospitalPayload(payload)
    THEN Err(s, "add_hospital", "InvalidPayload", ValidationMsg)
    ELSE LET a == Allocate(s)
             hospital == NewHospital(a.id, payload)
             s2 == [a.st EXCEPT !.hospitals = Insert(@, a.id, hospital)]
         IN  IF IsSome(a.st.hospitals, a.id)
             THEN Err(s2, "add_hospital", "InvalidPayload",
                      "Could not add hospital name: " \o payload.name)
             ELSE Ok(s2, "add_hospital", hospital)

EditedHospital(hospital, payload) == [hospital EXCEPT !.name = payload.name]

edit_hospital(s, payload) ==
    IF ~IsSome(s.hospitals, payload.hospital_id)
    THEN Err(s, "edit_hospital", "NotFound",
             "hospital of id: " \o ToString(payload.hospital_id) \o " not found")
    ELSE LET hospital == s.hospitals[payload.hospital_id]
             new_hospital == EditedHospital(hospital, payload)
         IN  IF PasswordMismatch(hospital.password, payload.password)
             THEN Err(s, "edit_hospital", "Unauthorized",
                      "Unauthorized, password does not match, try again")
             ELSE LET s2 == [s EXCEPT !.hospitals = Insert(@, hospital.id, new_hospital)]
                  IN  IF IsSome(s.hospitals, hospital.id)
                      THEN Ok(s2, "edit_hospital", new_hospital)
                      ELSE Err(s2, "edit_hospital", "InvalidPayload",
                               "Could not edit hospital title: " \o hospital.name)

\* Vec::push of the patient id onto the hospital's patients.
PushPatientToHospital(hospital, patient_id) ==
    [hospital EXCEPT !.patients_ids = Append(@, patient_id)]

\* The helper as a bug would have it: the arms of the match on the insert
\* swapped, so the write that succeeded is reported as an error.
add_patient_to_hospital_Swapped(s, hospital_id, patient_id) ==
    IF ~IsSome(s.hospitals, hospital_id)
    THEN Err(s, "assign_patient_to_doctor", "NotFound",
             "hospital of id: " \o ToString(hospital_id) \o " not found")
    ELSE LET hospital == s.hospitals[hospital_id]
             new_hospital == PushPatientToHospital(hospital, patient_id)
             s2 == [s EXCEPT !.hospitals = Insert(@, hospital.id, new_hospital)]
         IN  IF IsSome(s.hospitals, hospital.id)
             THEN Err(s2, "assign_patient_to_doctor", "InvalidPayload",
                      "Could not update hospital")
             ELSE Ok(s2, "assign_patient_to_doctor", "()")

add_patient_to_hospital(s, hospital_id, patient_id) ==
    IF ~IsSome(s.hospitals, hospital_id)
    THEN Err(s, "assign_patient_to_doctor", "NotFound",
             "hospital of id: " \o ToString(hospital_id) \o " not found")
    ELSE LET hospital == s.hospitals[hospital_id]
             new_hospital == PushPatientToHospital(hospital, patient_id)
             s2 == [s EXCEPT !.hospitals = Insert(@, hospital.id, new_hospital)]
         IN  IF IsSome(s.hospitals, hospital.id)
             THEN Ok(s2, "assign_patient_to_doctor", "()")
             ELSE Err(s2, "assign_patient_to_doctor", "InvalidPayload",
                      "Could not update hospital")

(***************************************************************************)
(* Patients.                                                               *)
(***************************************************************************)
NewPatient(id, payload) ==
    [id |-> id, name |-> payload.name, history |-> payload.history,
     password |-> payload.password, doctors_ids |-> <<>>, hospitals_ids |-> <<>>]

add_patient(s, payload) ==
    IF ~ValidPatientPayload(payload)
    THEN Err(s, "add_patient", "InvalidPayload", ValidationMsg)
    ELSE LET a == Allocate(s)
             patient == NewPatient(a.id, payload)
             s2 == [a.st EXCEPT !.patients = Insert(@, a.id, patient)]
         IN  IF IsSome(a.st.patients, a.id)
             THEN Err(s2, "add_patient", "InvalidPayload",
                      "Could not add patient name: " \o payload.name)
             ELSE Ok(s2, "add_patient", patient)

EditedPatient(patient, payload) == [patient EXCEPT !.name = payload.name]

edit_patient(s, payload) ==
    IF ~IsSome(s.patients, payload.patient_id)
    THEN Err(s, "edit_patient", "NotFound",
             "patient of id: " \o ToString(payload.patient_id) \o " not found")
    ELSE LET patient == s.patients[payload.patient_id]
             new_patient == EditedPatient(patient, payload)
         IN  IF PasswordMismatch(patient.password, payload.password)
             THEN Err(s, "edit_patient", "Unauthorized",
                      "Unauthorized, password does not match, try again")
             ELSE LET s2 == [s EXCEPT !.patients = Insert(@, patient.id, new_patient)]
                  IN  IF IsSome(s.patients, patient.id)
                      THEN Ok(s2, "edit_patient", new_patient)
                      ELSE Err(s2, "edit_patient", "InvalidPayload",
                               "Could not edit patient name: " \o patient.name)

(***************************************************************************)
(* Doctors.                                                                *)
(***************************************************************************)
NewDoctor(id, payload) ==
    [id |-> id, name |-> payload.name, password |-> payload.password,
     hospital_id |-> payload.hospital_id, patient_ids |-> <<>>]

add_doctor_to_storage(s, payload) ==
    LET a == Allocate(s)
        doctor == NewDoctor(a.id, payload)
        s2 == [a.st EXCEPT !.doctors = Insert(@, a.id, doctor)]
    IN  IF IsSome(a.st.doctors, a.id)
        THEN Err(s2, "add_doctor", "InvalidPayload",
                 "Could not add doctor name: " \o payload.name)
        ELSE Ok(s2, "add_doctor", doctor)

\* The push as bugs would have it: forgotten, or made twice.
PushDoctorToHospital_Skip(hospital, doctor_id) == hospital
PushDoctorToHospital_Front(hospital, doctor_id) ==
    [hospital EXCEPT !.doctors_ids = <<doctor_id>> \o @]
PushDoctorToHospital_Twice(hospital, doctor_id) ==
    [hospital EXCEPT !.doctors_ids = Append(Append(@, doctor_id), doctor_id)]

\* Vec::push of the doctor id onto the hospital's doctors.
PushDoctorToHospital(hospital, doctor_id) ==
    [hospital EXCEPT !.doctors_ids = Append(@, doctor_id)]

\* The doctor record re-written with the hospital it is attached to.
AttachedDoctor(doctor, hospital) == [doctor EXCEPT !.hospital_id = hospital.id]

add_doctor_to_hospital(s, doctor, hospital) ==
    LET new_hospital == PushDoctorToHospital(hospital, doctor.id)
        s2 == [s EXCEPT !.hospitals = Insert(@, hospital.id, new_hospital)]
        new_doctor == AttachedDoctor(doctor, hospital)
        s3 == [s2 EXCEPT !.doctors = Insert(@, doctor.id, new_doctor)]
    IN  IF ~IsSome(s.hospitals, hospital.id)
        THEN Err(s2, "add_doctor", "InvalidPayload", "Could not update hospital")
        ELSE IF ~IsSome(s2.doctors, doctor.id)
        THEN Err(s3, "add_doctor", "InvalidPayload", "Could not update doctor")
        ELSE Ok(s3, "add_doctor", doctor)

\* The handler as a bug would have it: the payload validated before the
\* hospital is looked up and its password compared.
add_doctor_ValidateFirst(s, payload) ==
    IF ~ValidDoctorPayload(payload)
    THEN Err(s, "add_doctor", "InvalidPayload", ValidationMsg)
    ELSE IF ~IsSome(s.hospitals, payload.hospital_id)
    THEN Err(s, "add_doctor", "NotFound",
             "Hospital of id: " \o ToString(payload.hospital_id) \o " not found")
    ELSE LET hospital == s.hospitals[payload.hospital_id]
             stored == add_doctor_to_storage(s, payload)
         IN  IF PasswordMismatch(hospital.password, payload.hospital_password)
             THEN Err(s, "add_doctor", "Unauthorized",
                      "Hospital access unauthorized, password does not match, try again")
             ELSE IF stored.res.kind # "Ok"
             THEN stored
             ELSE add_doctor_to_hospital(stored.st, stored.res.value, hospital)

add_doctor(s, payload) ==
    IF ~IsSome(s.hospitals, payload.hospital_id)
    THEN Err(s, "add_doctor", "NotFound",
             "Hospital of id: " \o ToString(payload.hospital_id) \o " not found")
    ELSE LET hospital == s.hospitals[payload.hospital_id]
             stored == add_doctor_to_storage(s, payload)
         IN  IF PasswordMismatch(hospital.password, payload.hospital_password)
             THEN Err(s, "add_doctor", "Unauthorized",
                      "Hospital access unauthorized, password does not match, try again")
             ELSE IF ~ValidDoctorPayload(payload)
             THEN Err(s, "add_doctor", "InvalidPayload", ValidationMsg)
             ELSE IF stored.res.kind # "Ok"
             THEN stored
             ELSE add_doctor_to_hospital(stored.st, stored.res.value, hospital)

\* The doctor record edit_doctor writes: new hospital, new name.
\* The edited doctor as a bug would have it: the hospital's password taken
\* for the doctor's.
EditedDoctor_HospitalPassword(doctor, hospital, payload) ==
    [doctor EXCEPT !.hospital_id = hospital.id, !.name = payload.name,
                   !.password = payload.hospital_password]

\* The edited doctor as a bug would have it: the doctor's own id written
\* where the hospital's belongs.
EditedDoctor_WrongId(doctor, hospital, payload) ==
    [doctor EXCEPT !.hospital_id = doctor.id, !.name = payload.name]

\* The edited doctor as a bug would have it: rebuilt from the payload alone,
\* so the doctor's patients are lost.
EditedDoctor_DropPatients(doctor, hospital, payload) ==
    [doctor EXCEPT !.hospital_id = hospital.id, !.name = payload.name,
                   !.patient_ids = <<>>]

EditedDoctor(doctor, hospital, payload) ==
    [doctor EXCEPT !.hospital_id = hospital.id, !.name = payload.name]

edit_doctor(s, payload) ==
    IF ~IsSome(s.doctors, payload.doctor_id)
    THEN Err(s, "edit_doctor", "NotFound",
             "doctor of id: " \o ToString(payload.doctor_id) \o " not found")
    ELSE LET doctor == s.doctors[payload.doctor_id] IN
    IF PasswordMismatch(doctor.password, payload.doctor_password)
    THEN Err(s, "edit_doctor", "Unauthorized",
             "Doctor Access unauthorized, password does not match, try again")
    ELSE IF ~IsSome(s.hospitals, payload.hospital_id)
    THEN Err(s, "edit_doctor", "NotFound",
             "Hospital of id: " \o ToString(payload.hospital_id) \o " not found")
    ELSE LET hospital == s.hospitals[payload.hospital_id]
             new_hospital == PushDoctorToHospital(hospital, doctor.id)
             s2 == [s EXCEPT !.hospitals = Insert(@, hospital.id, new_hospital)]
             new_doctor == EditedDoctor(doctor, hospital, payload)
             s3 == [s2 EXCEPT !.doctors = Insert(@, doctor.id, new_doctor)]
         IN
    IF PasswordMismatch(hospital.password, payload.hospital_password)
    THEN Err(s, "edit_doctor", "Unauthorized",
             "Hospital access unauthorized, password does not match, try again")
    ELSE IF ~IsSome(s.hospitals, hospital.id)
    THEN Err(s2, "edit_doctor", "InvalidPayload", "Could not update hospital")
    ELSE IF ~IsSome(s2.doctors, doctor.id)
    THEN Err(s3, "edit_doctor", "InvalidPayload", "Could not update doctor")
    ELSE Ok(s3, "edit_doctor",
            "Succesfully assigned doctor " \o payload.name
                \o " to hospital: " \o hospital.name \o " ")

(***************************************************************************)
(* Doctor <-> patient assignment.                                          *)
(***************************************************************************)
\* The two pushes of an assignment as a bug would have them: forgotten.
PushPatientToDoctor_Skip(doctor, patient) == doctor
PushDoctorToPatient_Skip(patient, doctor) == patient

\* Vec::push of the patient id onto the doctor's patients.
PushPatientToDoctor(doctor, patient) ==
    [doctor EXCEPT !.patient_ids = Append(@, patient.id)]

\* Vec::push of the doctor id onto the patient's doctors.
PushDoctorToPatient(patient, doctor) ==
    [patient EXCEPT !.doctors_ids = Append(@, doctor.id)]

assign_patient_to_doctor(s, payload) ==
    IF ~IsSome(s.doctors, payload.doctor_id)
    THEN Err(s, "assign_patient_to_doctor", "NotFound",
             "patient of id: " \o ToString(payload.patient_id) \o " not found")
    ELSE LET doctor == s.doctors[payload.doctor_id] IN
    IF PasswordMismatch(doctor.password, payload.doctor_password)
    THEN Err(s, "assign_patient_to_doctor", "Unauthorized",
             "Doctor Access unauthorized, password does not match, try again")
    ELSE IF ~IsSome(s.patients, payload.patient_id)
    THEN Err(s, "assign_patient_to_doctor", "NotFound",
             "Doctor of id: " \o ToString(payload.doctor_id) \o " not found")
    ELSE LET patient == s.patients[payload.patient_id]
             new_doctor == PushPatientToDoctor(doctor, patient)
             linked == add_patient_to_hospital(s, doctor.hospital_id, patient.id)
             s2 == [linked.st EXCEPT !.doctors = Insert(@, doctor.id, new_doctor)]
             new_patient == PushDoctorToPatient(patient, doctor)
             s3 == [s2 EXCEPT !.patients = Insert(@, patient.id, new_patient)]
         IN
    IF PasswordMismatch(patient.password, payload.patient_password)
    THEN Err(s, "assign_patient_to_doctor", "Unauthorized",
             "Patient access unauthorized, password does not match, try again")
    ELSE IF linked.res.kind # "Ok"
    THEN linked
    ELSE IF ~IsSome(linked.st.doctors, doctor.id)
    THEN Err(s2, "assign_patient_to_doctor", "InvalidPayload", "Could not update doctor")
    ELSE IF ~IsSome(s2.patients, patient.id)
    THEN Err(s3, "assign_patient_to_doctor", "InvalidPayload", "Could not update patient")
    ELSE Ok(s3, "assign_patient_to_doctor",
            "Succesfully assigned patient " \o patient.name
                \o " to doctor: " \o doctor.name
                \o " and hospital: " \o ToString(doctor.hospital_id) \o " ")

(***************************************************************************)
(* Patient history.                                                        *)
(***************************************************************************)
\* format!("{} \n Doctor {} : {} at {} \n {}", ..): the text appended to the
\* history the patient had.
HistorySegment(doctor, now, new_history) ==
    " \n Doctor " \o ToString(doctor.id) \o " : " \o doctor.name
        \o " at " \o ToString(now) \o " \n " \o new_history

\* The history update as a bug would have it: the new entry replaces the log.
AppendedHistory_Overwrite(patient, doctor, now, new_history) ==
    [patient EXCEPT !.history = HistorySegment(doctor, now, new_history)]

AppendedHistory(patient, doctor, now, new_history) ==
    [patient EXCEPT !.history = @ \o HistorySegment(doctor, now, new_history)]

update_patient_history(s, payload, now) ==
    IF ~IsSome(s.doctors, payload.doctor_id)
    THEN Err(s, "update_patient_history", "NotFound",
             "Doctor of id: " \o ToString(payload.doctor_id) \o " not found")
    ELSE LET doctor == s.doctors[payload.doctor_id] IN
    IF PasswordMismatch(doctor.password, payload.doctor_password)
    THEN Err(s, "update_patient_history", "Unauthorized",
             "Doctor Access unauthorized, password does not match, try again")
    ELSE IF ~IsSome(s.patients, payload.patient_id)
    THEN Err(s, "update_patient_history", "NotFound",
             "Patient of id: " \o ToString(payload.patient_id) \o " not found")
    ELSE LET patient == s.patients[payload.patient_id]
             new_patient == AppendedHistory(patient, doctor, now, payload.new_history)
             s2 == [s EXCEPT !.patients = Insert(@, patient.id, new_patient)]
         IN
    IF ~Contains(patient.doctors_ids, doctor.id)
    THEN Err(s, "update_patient_history", "Unauthorized",
             "Patient access unauthorized, doctor is not assigned to patient, try again")
    ELSE IF ~IsSome(s.patients, patient.id)
    THEN Err(s2, "update_patient_history", "InvalidPayload", "Could not update patient")
    ELSE Ok(s2, "update_patient_history",
            "Succesfully updated patient " \o patient.name \o " history")

(***************************************************************************)
(* Reads of a patient.                                                     *)
(***************************************************************************)
\* The record handed to the doctor as a bug would have it: masked like the
\* public read of a patient, history included.
PatientInfo_NoHistory(patient) ==
    [patient EXCEPT !.password = Masked, !.history = "-"]

\* Patient { password: "-".to_string(), ..patient.clone() }
PatientInfo(patient) == [patient EXCEPT !.password = Masked]

get_patient_info(s, payload) ==
    IF ~IsSome(s.doctors, payload.doctor_id)
    THEN Err(s, "get_patient_info", "NotFound",
             "patient of id: " \o ToString(payload.patient_id) \o " not found")
    ELSE LET doctor == s.doctors[payload.doctor_id] IN
    IF PasswordMismatch(doctor.password, payload.doctor_password)
    THEN Err(s, "get_patient_info", "Unauthorized",
             "Doctor Access unauthorized, password does not match, try again")
    ELSE IF ~IsSome(s.patients, payload.patient_id)
    THEN Err(s, "get_patient_info", "NotFound",
             "Doctor of id: " \o ToString(payload.doctor_id) \o " not found")
    ELSE LET patient == s.patients[payload.patient_id] IN
    IF ~Contains(patient.doctors_ids, doctor.id)
    THEN Err(s, "get_patient_info", "Unauthorized",
             "Patient access unauthorized, doctor is not assigned to patient, get patient permission")
    ELSE Ok(s, "get_patient_info", PatientInfo(patient))

(***************************************************************************)
(* The public reads.                                                       *)
(***************************************************************************)
\* StableBTreeMap::iter().collect(): the records of the keys, in ascending
\* key order.
RECURSIVE ScanKeys(_, _)
ScanKeys(map, keys) ==
    IF keys = {}
    THEN <<>>
    ELSE LET k == CHOOSE x \in keys : \A y \in keys : x <= y
         IN  <<map[k]>> \o ScanKeys(map, keys \ {k})

Scan(map) == ScanKeys(map, DOMAIN map)

\* str::to_lowercase on the ASCII letters, one character at a time.
UpperCase == <<"A", "B", "C", "D", "E", "F", "G", "H", "I", "J", "K", "L", "M",
               "N", "O", "P", "Q", "R", "S", "T", "U", "V", "W", "X", "Y", "Z">>
LowerCase == <<"a", "b", "c", "d", "e", "f", "g", "h", "i", "j", "k", "l", "m",
               "n", "o", "p", "q", "r", "s", "t", "u", "v", "w", "x", "y", "z">>

LowerChar(c) ==
    IF \E i \in 1..Len(UpperCase) : UpperCase[i] = c
    THEN LowerCase[CHOOSE i \in 1..Len(UpperCase) : UpperCase[i] = c]
    ELSE c

RECURSIVE ToLowercase(_)
ToLowercase(str) ==
    IF Len(str) = 0
    THEN ""
    ELSE LowerChar(SubSeq(str, 1, 1)) \o ToLowercase(SubSeq(str, 2, Len(str)))

\* str::contains: the pattern occurs somewhere in the text (the empty
\* pattern occurs in every text).
StrContains(text, pattern) ==
    \/ Len(pattern) = 0
    \/ \E i \in 1..(Len(text) - Len(pattern) + 1) :
          SubSeq(text, i, i + Len(pattern) - 1) = pattern

\* The filter as a bug would have it: the name compared as stored, without
\* to_lowercase.
RECURSIVE NameMatches_CaseSensitive(_, _)
NameMatches_CaseSensitive(hospitals, query) ==
    IF hospitals = <<>>
    THEN <<>>
    ELSE (IF StrContains(Head(hospitals).name, query)
          THEN <<Head(hospitals)>>
          ELSE <<>>) \o NameMatches_CaseSensitive(Tail(hospitals), query)

\* Filter of a sequence of hospitals by the lower-cased name.
RECURSIVE NameMatches(_, _)
NameMatches(hospitals, query) ==
    IF hospitals = <<>>
    THEN <<>>
    ELSE (IF StrContains(ToLowercase(Head(hospitals).name), query)
          THEN <<Head(hospitals)>>
          ELSE <<>>) \o NameMatches(Tail(hospitals), query)

\* The masking as a bug would have it: the record handed out as stored.
MaskPassword_Forgotten(record) == record

\* Hospital { password: "-".to_string(), ..hospital }, and the same for a
\* doctor.
MaskPassword(record) == [record EXCEPT !.password = Masked]

\* Patient { password: "-", history: "-", ..patient }
MaskPatient(patient) == [MaskPassword(patient) EXCEPT !.history = "-"]

MaskAll(hospitals) == [i \in 1..Len(hospitals) |-> MaskPassword(hospitals[i])]

get_all_hospitals(s) ==
    LET hospitals == MaskAll(Scan(s.hospitals))
    IN  IF Len(hospitals) = 0
        THEN Err(s, "get_all_hospitals", "NotFound", "no Hospitals found")
        ELSE Ok(s, "get_all_hospitals", hospitals)

get_hospital_by_name(s, search) ==
    LET query == ToLowercase(search)
        incomplete_patients == MaskAll(NameMatches(Scan(s.hospitals), query))
    IN  IF Len(incomplete_patients) = 0
        THEN Err(s, "get_hospital_by_name", "NotFound",
                 "No hospitals for name: " \o query \o " could be found")
        ELSE Ok(s, "get_hospital_by_name", incomplete_patients)

get_hospital_by_id(s, id) ==
    IF IsSome(s.hospitals, id)
    THEN Ok(s, "get_hospital_by_id", MaskPassword(s.hospitals[id]))
    ELSE Err(s, "get_hospital_by_id", "NotFound",
             "hospital of id: " \o ToString(id) \o " not found")

get_patient(s, id) ==
    IF IsSome(s.patients, id)
    THEN Ok(s, "get_patient", MaskPatient(s.patients[id]))
    ELSE Err(s, "get_patient", "NotFound",
             "patient id:" \o ToString(id) \o " does not exist")

get_doctor_by_id(s, id) ==
    IF IsSome(s.doctors, id)
    THEN Ok(s, "get_doctor_by_id", MaskPassword(s.doctors[id]))
    ELSE Err(s, "get_doctor_by_id", "NotFound",
             "doctor id:" \o ToString(id) \o " does not exist")

(***************************************************************************)
(* The state machine.                                                      *)
(***************************************************************************)
Empty == [x \in {} |-> 0]

Init ==
    /\ ID_COUNTER = 0
    /\ HOSPITAL_STORAGE = Empty
    /\ DOCTOR_STORAGE = Empty
    /\ PATIENT_STORAGE = Empty
    /\ last = [op |-> "init", kind |-> "Ok", msg |-> "", value |-> "-"]

\* The part of the store the exploration keeps: at most MaxIds ids handed
\* out, relationship lists of at most MaxLinks entries, histories of at most
\* MaxHistoryLen characters.
Bounded(s) ==
    /\ s.counter <= MaxIds
    /\ \A h \in DOMAIN s.hospitals :
          /\ Len(s.hospitals[h].patients_ids) <= MaxLinks
          /\ Len(s.hospitals[h].doctors_ids) <= MaxLinks
    /\ \A d \in DOMAIN s.doctors : Len(s.doctors[d].patient_ids) <= MaxLinks
    /\ \A p \in DOMAIN s.patients :
          /\ Len(s.patients[p].doctors_ids) <= MaxLinks
          /\ Len(s.patients[p].history) <= MaxHistoryLen

\* A call returns: the store and `last` become what the handler yields.
Returns(r) ==
    /\ ID_COUNTER' = r.st.counter
    /\ HOSPITAL_STORAGE' = r.st.hospitals
    /\ DOCTOR_STORAGE' = r.st.doctors
    /\ PATIENT_STORAGE' = r.st.patients
    /\ last' = r.res

Call(r) == Bounded(r.st) /\ Returns(r)

\* The ids a caller tries for a map: every key of the map, and one id that
\* is no key of any map (the next id the counter would hand out).
Tried(map) == DOMAIN map \cup {ID_COUNTER}
HospitalIds == Tried(HOSPITAL_STORAGE)
DoctorIds == Tried(DOCTOR_STORAGE)
PatientIds == Tried(PATIENT_STORAGE)

AddHospital == \E payload \in HospitalPayloads : Call(add_hospital(Store, payload))
EditHospital ==
    \E payload \in EditHospitalPayloads(HospitalIds) :
        Call(edit_hospital(Store, payload))
AddPatient == \E payload \in PatientPayloads : Call(add_patient(Store, payload))
EditPatient ==
    \E payload \in EditPatientPayloads(PatientIds) : Call(edit_patient(Store, payload))
AddDoctor ==
    \E payload \in DoctorPayloads(HospitalIds) : Call(add_doctor(Store, payload))
EditDoctor ==
    \E payload \in EditDoctors(DoctorIds, HospitalIds) :
        Call(edit_doctor(Store, payload))
AssignPatientToDoctor ==
    \E payload \in AddPatientToDoctors(DoctorIds, PatientIds) :
        Call(assign_patient_to_doctor(Store, payload))
UpdatePatientHistory ==
    \E payload \in PatientHistoryUpdates(DoctorIds, PatientIds), now \in Times :
        Call(update_patient_history(Store, payload, now))
GetPatientInfo ==
    \E payload \in AccessPayloads(DoctorIds, PatientIds) :
        Call(get_patient_info(Store, payload))

Next ==
    \/ AddHospital
    \/ EditHospital
    \/ AddPatient
    \/ EditPatient
    \/ AddDoctor
    \/ EditDoctor
    \/ AssignPatientToDoctor
    \/ UpdatePatientHistory
    \/ GetPatientInfo

Spec == Init /\ [][Next]_vars

\* The searches a caller tries.
Searches == {"AN", "b", "zz"}

GetAllHospitals == Call(get_all_hospitals(Store))
GetHospitalByName == \E search \in Searches : Call(get_hospital_by_name(Store, search))
GetHospitalById == \E id \in HospitalIds : Call(get_hospital_by_id(Store, id))
GetPatient == \E id \in PatientIds : Call(get_patient(Store, id))
GetDoctorById == \E id \in DoctorIds : Call(get_doctor_by_id(Store, id))

\* The canister with its public reads as well.
NextWithReads ==
    \/ Next
    \/ GetAllHospitals
    \/ GetHospitalByName
    \/ GetHospitalById
    \/ GetPatient
    \/ GetDoctorById

ReadSpec == Init /\ [][NextWithReads]_vars

(***************************************************************************)
(* Helpers of the properties.                                              *)
(***************************************************************************)
Hospitals == DOMAIN HOSPITAL_STORAGE
Doctors == DOMAIN DOCTOR_STORAGE
Patients == DOMAIN PATIENT_STORAGE

\* The set of the elements of seq.
Range(seq) == {seq[i] : i \in 1..Len(seq)}

\* x is an element of seq.
Lists(seq, x) == x \in Range(seq)

\* How many times x occurs in seq.
Count(seq, x) == Cardinality({i \in 1..Len(seq) : seq[i] = x})

\* a is an initial part of b.
IsPrefix(a, b) == Len(a) <= Len(b) /\ SubSeq(b, 1, Len(a)) = a

\* a is a final part of b.
IsSuffix(a, b) == Len(a) <= Len(b) /\ SubSeq(b, Len(b) - Len(a) + 1, Len(b)) = a

\* The number of places of b where a occurs.
Occurrences(a, b) ==
    Cardinality({i \in 1..(Len(b) - Len(a) + 1) : SubSeq(b, i, i + Len(a) - 1) = a})

\* The last call was `op` and it returned `kind`.
Returned(op, kind) == last.op = op /\ last.kind = kind

(***************************************************************************)
(* C1.  In every reachable state, for every doctor D and patient P,        *)
(* D.patient_ids contains P.id if and only if P.doctors_ids contains D.id. *)
(***************************************************************************)
C1_Symmetric ==
    \A d \in Doctors, p \in Patients :
        Lists(DOCTOR_STORAGE[d].patient_ids, PATIENT_STORAGE[p].id)
            <=> Lists(PATIENT_STORAGE[p].doctors_ids, DOCTOR_STORAGE[d].id)

\* An assignment has just succeeded and linked a doctor and a patient.
C1_Witness ==
    /\ Returned("assign_patient_to_doctor", "Ok")
    /\ \E d \in Doctors, p \in Patients :
          /\ Lists(DOCTOR_STORAGE[d].patient_ids, p)
          /\ Lists(PATIENT_STORAGE[p].doctors_ids, d)

(***************************************************************************)
(* C2.  Idempotence of assignment: once the pair (D, P) has been assigned, *)
(* also twice, D.patient_ids contains P.id exactly once and P.doctors_ids  *)
(* contains D.id exactly once.                                             *)
(***************************************************************************)
C2_AssignedExactlyOnce ==
    \A d \in Doctors, p \in Patients :
        Lists(DOCTOR_STORAGE[d].patient_ids, p) =>
            /\ Count(DOCTOR_STORAGE[d].patient_ids, p) = 1
            /\ Count(PATIENT_STORAGE[p].doctors_ids, d) = 1

(***************************************************************************)
(* C3.  The ids of the created hospitals, doctors and patients are         *)
(* pairwise distinct across the three maps, every record is stored under   *)
(* its own id, every id handed out is below the counter, a successful      *)
(* create returns the id the counter held (so above every earlier id) and  *)
(* advances the counter by one, and a failed create leaves the counter.    *)
(***************************************************************************)
Creates == {"add_hospital", "add_doctor", "add_patient"}

C3_IdsState ==
    /\ Hospitals \cap Doctors = {}
    /\ Hospitals \cap Patients = {}
    /\ Doctors \cap Patients = {}
    /\ \A i \in Hospitals : HOSPITAL_STORAGE[i].id = i /\ i < ID_COUNTER
    /\ \A i \in Doctors : DOCTOR_STORAGE[i].id = i /\ i < ID_COUNTER
    /\ \A i \in Patients : PATIENT_STORAGE[i].id = i /\ i < ID_COUNTER
    /\ Cardinality(Hospitals \cup Doctors \cup Patients) = ID_COUNTER

C3_IdsStep ==
    last'.op \in Creates =>
        IF last'.kind = "Ok"
        THEN /\ last'.value.id = ID_COUNTER
             /\ ID_COUNTER' = ID_COUNTER + 1
             /\ (Hospitals \cup Doctors \cup Patients)' =
                    Hospitals \cup Doctors \cup Patients \cup {ID_COUNTER}
        ELSE /\ ID_COUNTER' = ID_COUNTER
             /\ (Hospitals \cup Doctors \cup Patients)' =
                    Hospitals \cup Doctors \cup Patients

C3_UniqueIncreasingIds == []C3_IdsState /\ [][C3_IdsStep]_vars

\* One entity of each type has been created, by three successive ids.
C3_Witness ==
    /\ ID_COUNTER = 3
    /\ Hospitals # {} /\ Doctors # {} /\ Patients # {}
    /\ Returned("add_patient", "Ok")

(***************************************************************************)
(* C4.  An edit of an existing hospital, doctor or patient with a password *)
(* that differs from the stored one returns Unauthorized and leaves every  *)
(* stored record (and the counter) unchanged.                              *)
(***************************************************************************)
C4_WrongPasswordEdit ==
    /\ \A payload \in EditHospitalPayloads(Hospitals) :
          HOSPITAL_STORAGE[payload.hospital_id].password # payload.password =>
              LET r == edit_hospital(Store, payload)
              IN  r.res.kind = "Unauthorized" /\ r.st = Store
    /\ \A payload \in EditPatientPayloads(Patients) :
          PATIENT_STORAGE[payload.patient_id].password # payload.password =>
              LET r == edit_patient(Store, payload)
              IN  r.res.kind = "Unauthorized" /\ r.st = Store
    /\ \A payload \in EditDoctors(Doctors, Ids) :
          DOCTOR_STORAGE[payload.doctor_id].password # payload.doctor_password =>
              LET r == edit_doctor(Store, payload)
              IN  r.res.kind = "Unauthorized" /\ r.st = Store

\* A doctor exists and an edit of a doctor was just refused for its password.
C4_Witness ==
    /\ Doctors # {}
    /\ Returned("edit_doctor", "Unauthorized")
    /\ last.msg = "Doctor Access unauthorized, password does not match, try again"

(***************************************************************************)
(* C5.  Right after a successful create that returned id i, the record     *)
(* stored under i has empty relationship lists and its other fields equal  *)
(* the payload's.                                                          *)
(***************************************************************************)
C5_CreateStoresPayload ==
    /\ \A payload \in HospitalPayloads :
          LET r == add_hospital(Store, payload)
              i == r.res.value.id
          IN  r.res.kind = "Ok" =>
                  /\ i \in DOMAIN r.st.hospitals
                  /\ r.st.hospitals[i].patients_ids = <<>>
                  /\ r.st.hospitals[i].doctors_ids = <<>>
                  /\ r.st.hospitals[i].name = payload.name
                  /\ r.st.hospitals[i].address = payload.address
                  /\ r.st.hospitals[i].password = payload.password
    /\ \A payload \in PatientPayloads :
          LET r == add_patient(Store, payload)
              i == r.res.value.id
          IN  r.res.kind = "Ok" =>
                  /\ i \in DOMAIN r.st.patients
                  /\ r.st.patients[i].doctors_ids = <<>>
                  /\ r.st.patients[i].hospitals_ids = <<>>
                  /\ r.st.patients[i].name = payload.name
                  /\ r.st.patients[i].history = payload.history
                  /\ r.st.patients[i].password = payload.password
    /\ \A payload \in DoctorPayloads(Ids) :
          LET r == add_doctor(Store, payload)
              i == r.res.value.id
          IN  r.res.kind = "Ok" =>
                  /\ i \in DOMAIN r.st.doctors
                  /\ r.st.doctors[i].patient_ids = <<>>
                  /\ r.st.doctors[i].name = payload.name
                  /\ r.st.doctors[i].password = payload.password
                  /\ r.st.doctors[i].hospital_id = payload.hospital_id

\* A hospital was just created and is stored under the id returned.
C5_Witness ==
    /\ Returned("add_hospital", "Ok")
    /\ last.value.id \in Hospitals
    /\ HOSPITAL_STORAGE[last.value.id] = last.value

(***************************************************************************)
(* C6.  History append is monotonic.  In every step every stored patient   *)
(* stays stored and its previous history is a prefix of its new history;   *)
(* a history changes only in a successful update_patient_history, which    *)
(* changes exactly one patient's history, by appending one segment that    *)
(* names a doctor then listed for that patient and ends with the new text; *)
(* no other operation changes any history.                                 *)
(***************************************************************************)
C6_OneSegmentAppended(p) ==
    LET h == PATIENT_STORAGE[p].history
        h2 == PATIENT_STORAGE'[p].history
        seg == SubSeq(h2, Len(h) + 1, Len(h2))
    IN  /\ Len(h2) > Len(h)
        /\ \E d \in Doctors, text \in NewHistories :
              /\ Lists(PATIENT_STORAGE[p].doctors_ids, d)
              /\ IsPrefix(" \n Doctor " \o ToString(d) \o " : ", seg)
              /\ IsSuffix(" \n " \o text, seg)
              /\ Occurrences(" \n Doctor ", seg) = 1

C6_HistoryStep ==
    LET changed == {p \in Patients :
                        PATIENT_STORAGE'[p].history # PATIENT_STORAGE[p].history}
    IN  /\ Patients \subseteq Patients'
        /\ \A p \in Patients :
              IsPrefix(PATIENT_STORAGE[p].history, PATIENT_STORAGE'[p].history)
        /\ IF last'.op = "update_patient_history" /\ last'.kind = "Ok"
           THEN /\ Cardinality(changed) = 1
                /\ \A p \in changed : C6_OneSegmentAppended(p)
           ELSE changed = {}

C6_HistoryAppendOnly == [][C6_HistoryStep]_vars

\* A patient's history holds the creation-time text followed by two
\* appended segments, the second written after the doctor was renamed.
C6_Witness ==
    /\ Returned("update_patient_history", "Ok")
    /\ \E p \in Patients, d \in Doctors :
          PATIENT_STORAGE[p].history =
              "healthy" \o " \n Doctor " \o ToString(d) \o " : Ann at 7 \n flu"
                        \o " \n Doctor " \o ToString(d) \o " : ab at 7 \n flu"

(***************************************************************************)
(* C7.  assign_patient_to_doctor needs both passwords.  For existing D and *)
(* P: with a wrong doctor or patient password the call returns             *)
(* Unauthorized and D.patient_ids, P.doctors_ids and every hospital's      *)
(* patients_ids are unchanged; with both right and both lists empty,       *)
(* afterwards D.patient_ids = <<P.id>> and P.doctors_ids = <<D.id>>.       *)
(***************************************************************************)
C7_AssignNeedsBothPasswords ==
    \A payload \in AddPatientToDoctors(Doctors, Patients) :
        LET d == payload.doctor_id
            p == payload.patient_id
            D == DOCTOR_STORAGE[d]
            P == PATIENT_STORAGE[p]
            r == assign_patient_to_doctor(Store, payload)
        IN  IF \/ payload.doctor_password # D.password
               \/ payload.patient_password # P.password
            THEN /\ r.res.kind = "Unauthorized"
                 /\ r.st.doctors[d].patient_ids = D.patient_ids
                 /\ r.st.patients[p].doctors_ids = P.doctors_ids
                 /\ DOMAIN r.st.hospitals = Hospitals
                 /\ \A h \in Hospitals :
                       r.st.hospitals[h].patients_ids =
                           HOSPITAL_STORAGE[h].patients_ids
            ELSE D.patient_ids = <<>> /\ P.doctors_ids = <<>> =>
                    /\ r.res.kind = "Ok"
                    /\ r.st.doctors[d].patient_ids = <<P.id>>
                    /\ r.st.patients[p].doctors_ids = <<D.id>>

\* The pair is assigned once, and a second assignment of it was just
\* refused for the patient's password.
C7_Witness ==
    /\ Returned("assign_patient_to_doctor", "Unauthorized")
    /\ last.msg = "Patient access unauthorized, password does not match, try again"
    /\ \E d \in Doctors, p \in Patients :
          /\ DOCTOR_STORAGE[d].patient_ids = <<p>>
          /\ PATIENT_STORAGE[p].doctors_ids = <<d>>

(***************************************************************************)
(* C8.  Relationship gate.  For an existing doctor D and patient Q with    *)
(* D.id not in Q.doctors_ids, get_patient_info and update_patient_history  *)
(* by D return Unauthorized, also with D's correct password, and the store *)
(* (Q's record included) is unchanged.                                     *)
(***************************************************************************)
C8_RelationshipGate ==
    /\ \A payload \in AccessPayloads(Doctors, Patients) :
          LET r == get_patient_info(Store, payload)
          IN  ~Lists(PATIENT_STORAGE[payload.patient_id].doctors_ids,
                        DOCTOR_STORAGE[payload.doctor_id].id)
                  => r.res.kind = "Unauthorized" /\ r.st = Store
    /\ \A payload \in PatientHistoryUpdates(Doctors, Patients), now \in Times :
          LET r == update_patient_history(Store, payload, now)
          IN  ~Lists(PATIENT_STORAGE[payload.patient_id].doctors_ids,
                        DOCTOR_STORAGE[payload.doctor_id].id)
                  => r.res.kind = "Unauthorized" /\ r.st = Store

\* A doctor with the right password was just refused a patient that does
\* not list it.
C8_Witness ==
    /\ Returned("get_patient_info", "Unauthorized")
    /\ last.msg = "Patient access unauthorized, doctor is not assigned to patient, get patient permission"
    /\ \E d \in Doctors, q \in Patients :
          ~Lists(PATIENT_STORAGE[q].doctors_ids, d)

(***************************************************************************)
(* C9.  add_doctor under an existing hospital H.  With a wrong hospital    *)
(* password: Unauthorized, no doctor created, no id consumed, H unchanged. *)
(* With the right password and a valid payload: the new doctor D is stored *)
(* with D.hospital_id = H.id, and H is as before but for doctors_ids,      *)
(* which is its previous value with D.id, not in it before, appended.      *)
(***************************************************************************)
C9_AddDoctorUnderHospital ==
    \A payload \in DoctorPayloads(Hospitals) :
        LET H == HOSPITAL_STORAGE[payload.hospital_id]
            r == add_doctor(Store, payload)
            i == r.res.value.id
        IN  IF payload.hospital_password # H.password
            THEN r.res.kind = "Unauthorized" /\ r.st = Store
            ELSE ValidDoctorPayload(payload) =>
                    /\ r.res.kind = "Ok"
                    /\ i \notin Doctors
                    /\ i \in DOMAIN r.st.doctors
                    /\ r.st.doctors[i].id = i
                    /\ r.st.doctors[i].hospital_id = H.id
                    /\ ~Lists(H.doctors_ids, i)
                    /\ r.st.hospitals =
                          [HOSPITAL_STORAGE EXCEPT
                              ![H.id] = [H EXCEPT !.doctors_ids = Append(@, i)]]

\* A doctor was just created under a fresh hospital, which lists it alone.
C9_Witness ==
    /\ Returned("add_doctor", "Ok")
    /\ last.value.id \in Doctors
    /\ \E h \in Hospitals :
          /\ DOCTOR_STORAGE[last.value.id].hospital_id = h
          /\ HOSPITAL_STORAGE[h].doctors_ids = <<last.value.id>>

(***************************************************************************)
(* C10.  In every reachable state every stored doctor D has a hospital_id  *)
(* that is the id of a stored hospital H, and H.doctors_ids contains D.id. *)
(***************************************************************************)
C10_DoctorListedByItsHospital ==
    \A d \in Doctors :
        /\ DOCTOR_STORAGE[d].hospital_id \in Hospitals
        /\ Lists(HOSPITAL_STORAGE[DOCTOR_STORAGE[d].hospital_id].doctors_ids,
                    DOCTOR_STORAGE[d].id)

\* edit_doctor has just moved a doctor to another hospital than the one it
\* was created under.
C10_Witness ==
    /\ Returned("edit_doctor", "Ok")
    /\ \E d \in Doctors, h \in Hospitals :
          /\ h # DOCTOR_STORAGE[d].hospital_id
          /\ HOSPITAL_STORAGE[h].doctors_ids = <<d>>
          /\ HOSPITAL_STORAGE[DOCTOR_STORAGE[d].hospital_id].doctors_ids = <<d>>

(***************************************************************************)
(* C11.  A doctor D is listed in hospital H's doctors_ids only if          *)
(* D.hospital_id = H.id: a doctor is listed by the one hospital it is      *)
(* attached to, and no listing remains in a hospital it has left.          *)
(***************************************************************************)
C11_ListedOnlyByOwnHospital ==
    \A h \in Hospitals, d \in Doctors :
        Lists(HOSPITAL_STORAGE[h].doctors_ids, d) => DOCTOR_STORAGE[d].hospital_id = h

(***************************************************************************)
(* C12.  Failure atomicity: whichever entry point is called with whichever *)
(* payload, if it returns an error (NotFound, Unauthorized or              *)
(* InvalidPayload) the three maps and the counter are as before the call.  *)
(***************************************************************************)
Failed(r) == r.res.kind \in {"NotFound", "Unauthorized", "InvalidPayload"}

C12_FailureAtomic ==
    /\ \A payload \in HospitalPayloads :
          LET r == add_hospital(Store, payload) IN Failed(r) => r.st = Store
    /\ \A payload \in EditHospitalPayloads(Ids) :
          LET r == edit_hospital(Store, payload) IN Failed(r) => r.st = Store
    /\ \A payload \in PatientPayloads :
          LET r == add_patient(Store, payload) IN Failed(r) => r.st = Store
    /\ \A payload \in EditPatientPayloads(Ids) :
          LET r == edit_patient(Store, payload) IN Failed(r) => r.st = Store
    /\ \A payload \in DoctorPayloads(Ids) :
          LET r == add_doctor(Store, payload) IN Failed(r) => r.st = Store
    /\ \A payload \in EditDoctors(Ids, Ids) :
          LET r == edit_doctor(Store, payload) IN Failed(r) => r.st = Store
    /\ \A payload \in AddPatientToDoctors(Ids, Ids) :
          LET r == assign_patient_to_doctor(Store, payload)
          IN  Failed(r) => r.st = Store
    /\ \A payload \in PatientHistoryUpdates(Ids, Ids), now \in Times :
          LET r == update_patient_history(Store, payload, now)
          IN  Failed(r) => r.st = Store
    /\ \A payload \in AccessPayloads(Ids, Ids) :
          LET r == get_patient_info(Store, payload) IN Failed(r) => r.st = Store

\* With a hospital, a doctor and a patient stored, an assignment was just
\* refused because one of its ids is unknown.
C12_Witness ==
    /\ Returned("assign_patient_to_doctor", "NotFound")
    /\ Hospitals # {} /\ Doctors # {} /\ Patients # {}

(***************************************************************************)
(* C13.  Public reads never disclose a stored password.  Every record      *)
(* returned by get_all_hospitals, get_hospital_by_name,                    *)
(* get_hospital_by_id, get_doctor_by_id and get_patient has the password   *)
(* "-" and the id and relationship lists of the stored record; and the     *)
(* store with its passwords replaced by any others gives the same result   *)
(* for every public read.                                                  *)
(***************************************************************************)
\* The returned hospital shows the stored hospital of its id, password hidden.
ShowsHospital(value, s) ==
    /\ value.id \in DOMAIN s.hospitals
    /\ value.password = "-"
    /\ value.id = s.hospitals[value.id].id
    /\ value.patients_ids = s.hospitals[value.id].patients_ids
    /\ value.doctors_ids = s.hospitals[value.id].doctors_ids

\* The store with the password of every record replaced as f says.
Repassworded(s, f) ==
    [s EXCEPT
        !.hospitals = [i \in DOMAIN @ |-> [@[i] EXCEPT !.password = f[i]]],
        !.doctors = [i \in DOMAIN @ |-> [@[i] EXCEPT !.password = f[i]]],
        !.patients = [i \in DOMAIN @ |-> [@[i] EXCEPT !.password = f[i]]]]

C13_Masked ==
    /\ \A id \in Ids :
          LET r == get_hospital_by_id(Store, id)
          IN  r.res.kind = "Ok" => r.res.value.id = id /\ ShowsHospital(r.res.value, Store)
    /\ \A id \in Ids :
          LET r == get_doctor_by_id(Store, id)
          IN  r.res.kind = "Ok" =>
                  /\ r.res.value.password = "-"
                  /\ r.res.value.id = DOCTOR_STORAGE[id].id
                  /\ r.res.value.patient_ids = DOCTOR_STORAGE[id].patient_ids
    /\ \A id \in Ids :
          LET r == get_patient(Store, id)
          IN  r.res.kind = "Ok" =>
                  /\ r.res.value.password = "-"
                  /\ r.res.value.id = PATIENT_STORAGE[id].id
                  /\ r.res.value.doctors_ids = PATIENT_STORAGE[id].doctors_ids
                  /\ r.res.value.hospitals_ids = PATIENT_STORAGE[id].hospitals_ids
    /\ LET r == get_all_hospitals(Store)
       IN  r.res.kind = "Ok" =>
               \A i \in 1..Len(r.res.value) : ShowsHospital(r.res.value[i], Store)
    /\ \A search \in Searches :
          LET r == get_hospital_by_name(Store, search)
          IN  r.res.kind = "Ok" =>
                  \A i \in 1..Len(r.res.value) : ShowsHospital(r.res.value[i], Store)

C13_SameForAnyPasswords ==
    \A f \in [Hospitals \cup Doctors \cup Patients -> {"pass", "other"}] :
        LET other == Repassworded(Store, f)
        IN  /\ get_all_hospitals(other).res = get_all_hospitals(Store).res
            /\ \A search \in Searches :
                  get_hospital_by_name(other, search).res
                      = get_hospital_by_name(Store, search).res
            /\ \A id \in Ids :
                  /\ get_hospital_by_id(other, id).res = get_hospital_by_id(Store, id).res
                  /\ get_doctor_by_id(other, id).res = get_doctor_by_id(Store, id).res
                  /\ get_patient(other, id).res = get_patient(Store, id).res

C13_PublicReadsHidePasswords == C13_Masked /\ C13_SameForAnyPasswords

\* A hospital with the password "pass" was just read by id, and the record
\* returned shows "-".
C13_Witness ==
    /\ Returned("get_hospital_by_id", "Ok")
    /\ HOSPITAL_STORAGE[last.value.id].password = "pass"
    /\ last.value.password = "-"

(***************************************************************************)
(* C14.  get_patient_info, when it succeeds (doctor password right, doctor *)
(* listed in the patient's doctors_ids), returns the patient's stored      *)
(* fields.  As claimed: every field of the returned record equals the      *)
(* stored record's.                                                        *)
(***************************************************************************)
C14_ReturnsStoredRecord ==
    \A payload \in AccessPayloads(Ids, Ids) :
        LET r == get_patient_info(Store, payload)
        IN  r.res.kind = "Ok" => r.res.value = PATIENT_STORAGE[payload.patient_id]

(***************************************************************************)
(* C14, as amended.  get_patient_info succeeds exactly when the doctor and *)
(* the patient exist, the doctor password is right and the patient lists   *)
(* the doctor; the record it returns has the password "-" and every other  *)
(* field (id, name, the real history, doctors_ids, hospitals_ids) equal to *)
(* the stored record's; the store is unchanged.                            *)
(***************************************************************************)
C14_ReturnsStoredButPassword ==
    \A payload \in AccessPayloads(Ids, Ids) :
        LET r == get_patient_info(Store, payload)
            d == payload.doctor_id
            p == payload.patient_id
        IN  /\ r.st = Store
            /\ r.res.kind = "Ok" <=>
                  /\ d \in Doctors /\ p \in Patients
                  /\ DOCTOR_STORAGE[d].password = payload.doctor_password
                  /\ Lists(PATIENT_STORAGE[p].doctors_ids, DOCTOR_STORAGE[d].id)
            /\ r.res.kind = "Ok" =>
                  /\ r.res.value.password = "-"
                  /\ r.res.value.id = PATIENT_STORAGE[p].id
                  /\ r.res.value.name = PATIENT_STORAGE[p].name
                  /\ r.res.value.history = PATIENT_STORAGE[p].history
                  /\ r.res.value.doctors_ids = PATIENT_STORAGE[p].doctors_ids
                  /\ r.res.value.hospitals_ids = PATIENT_STORAGE[p].hospitals_ids

\* A doctor was just shown a patient whose history it had appended to.
C14_Witness ==
    /\ Returned("get_patient_info", "Ok")
    /\ last.value.id \in Patients
    /\ last.value.history = PATIENT_STORAGE[last.value.id].history
    /\ Len(last.value.history) > Len("healthy")
    /\ PATIENT_STORAGE[last.value.id].password # "-"

(***************************************************************************)
(* C15.  In every reachable state no hospital's patients_ids holds the     *)
(* same patient id twice and no hospital's doctors_ids holds the same      *)
(* doctor id twice.                                                        *)
(***************************************************************************)
C15_NoDuplicateIds ==
    \A h \in Hospitals :
        /\ \A p \in Range(HOSPITAL_STORAGE[h].patients_ids) :
              Count(HOSPITAL_STORAGE[h].patients_ids, p) = 1
        /\ \A d \in Range(HOSPITAL_STORAGE[h].doctors_ids) :
              Count(HOSPITAL_STORAGE[h].doctors_ids, d) = 1

\* Every relationship list of every record of a store.
RelationshipLists(s) ==
    [patients_ids |-> [h \in DOMAIN s.hospitals |-> s.hospitals[h].patients_ids],
     doctors_ids |-> [h \in DOMAIN s.hospitals |-> s.hospitals[h].doctors_ids],
     patient_ids |-> [d \in DOMAIN s.doctors |-> s.doctors[d].patient_ids],
     patient_doctors_ids |-> [p \in DOMAIN s.patients |-> s.patients[p].doctors_ids],
     hospitals_ids |-> [p \in DOMAIN s.patients |-> s.patients[p].hospitals_ids]]

(***************************************************************************)
(* C16.  As claimed: an edit (edit_hospital, edit_patient, edit_doctor)    *)
(* succeeds on the edited entity's own password alone, leaves every        *)
(* relationship list of every stored record untouched and changes only the *)
(* edited entity's name.                                                   *)
(***************************************************************************)
C16_EditsNeedOwnPasswordOnly ==
    /\ \A payload \in EditHospitalPayloads(Ids) :
          LET r == edit_hospital(Store, payload)
              h == payload.hospital_id
          IN  /\ (h \in Hospitals /\ HOSPITAL_STORAGE[h].password = payload.password)
                    => r.res.kind = "Ok"
              /\ r.res.kind = "Ok" =>
                    /\ RelationshipLists(r.st) = RelationshipLists(Store)
                    /\ r.st = [Store EXCEPT !.hospitals[h].name = payload.name]
    /\ \A payload \in EditPatientPayloads(Ids) :
          LET r == edit_patient(Store, payload)
              p == payload.patient_id
          IN  /\ (p \in Patients /\ PATIENT_STORAGE[p].password = payload.password)
                    => r.res.kind = "Ok"
              /\ r.res.kind = "Ok" =>
                    /\ RelationshipLists(r.st) = RelationshipLists(Store)
                    /\ r.st = [Store EXCEPT !.patients[p].name = payload.name]
    /\ \A payload \in EditDoctors(Ids, Ids) :
          LET r == edit_doctor(Store, payload)
              d == payload.doctor_id
          IN  /\ (/\ d \in Doctors /\ payload.hospital_id \in Hospitals
                  /\ DOCTOR_STORAGE[d].password = payload.doctor_password)
                    => r.res.kind = "Ok"
              /\ r.res.kind = "Ok" =>
                    /\ RelationshipLists(r.st) = RelationshipLists(Store)
                    /\ r.st = [Store EXCEPT !.doctors[d].name = payload.name]

(***************************************************************************)
(* C16, as amended.  edit_hospital and edit_patient succeed exactly when   *)
(* the entity exists and its own password is supplied; they replace the    *)
(* name and nothing else.  edit_doctor succeeds exactly when the doctor    *)
(* and the target hospital exist and both the doctor's and the target      *)
(* hospital's passwords are supplied; it replaces the doctor's name, sets  *)
(* the doctor's hospital_id to the target hospital and appends the         *)
(* doctor's id to the target hospital's doctors_ids, and changes nothing   *)
(* else: every other relationship list is untouched.                       *)
(***************************************************************************)
C16_EditsAsCoded ==
    /\ \A payload \in EditHospitalPayloads(Ids) :
          LET r == edit_hospital(Store, payload)
              h == payload.hospital_id
          IN  /\ r.res.kind = "Ok" <=>
                    (h \in Hospitals /\ HOSPITAL_STORAGE[h].password = payload.password)
              /\ r.res.kind = "Ok" =>
                    /\ RelationshipLists(r.st) = RelationshipLists(Store)
                    /\ r.st = [Store EXCEPT !.hospitals[h].name = payload.name]
    /\ \A payload \in EditPatientPayloads(Ids) :
          LET r == edit_patient(Store, payload)
              p == payload.patient_id
          IN  /\ r.res.kind = "Ok" <=>
                    (p \in Patients /\ PATIENT_STORAGE[p].password = payload.password)
              /\ r.res.kind = "Ok" =>
                    /\ RelationshipLists(r.st) = RelationshipLists(Store)
                    /\ r.st = [Store EXCEPT !.patients[p].name = payload.name]
    /\ \A payload \in EditDoctors(Ids, Ids) :
          LET r == edit_doctor(Store, payload)
              d == payload.doctor_id
              h == payload.hospital_id
          IN  /\ r.res.kind = "Ok" <=>
                    /\ d \in Doctors /\ h \in Hospitals
                    /\ DOCTOR_STORAGE[d].password = payload.doctor_password
                    /\ HOSPITAL_STORAGE[h].password = payload.hospital_password
              /\ r.res.kind = "Ok" =>
                    /\ r.st.counter = ID_COUNTER
                    /\ r.st.patients = PATIENT_STORAGE
                    /\ DOMAIN r.st.doctors = Doctors
                    /\ DOMAIN r.st.hospitals = Hospitals
                    /\ \A x \in Doctors \ {d} : r.st.doctors[x] = DOCTOR_STORAGE[x]
                    /\ \A x \in Hospitals \ {h} : r.st.hospitals[x] = HOSPITAL_STORAGE[x]
                    /\ r.st.doctors[d] =
                          [id |-> DOCTOR_STORAGE[d].id,
                           name |-> payload.name,
                           password |-> DOCTOR_STORAGE[d].password,
                           hospital_id |-> h,
                           patient_ids |-> DOCTOR_STORAGE[d].patient_ids]
                    /\ r.st.hospitals[h].doctors_ids =
                          HOSPITAL_STORAGE[h].doctors_ids \o <<d>>
                    /\ [r.st.hospitals[h] EXCEPT !.doctors_ids = <<>>] =
                          [HOSPITAL_STORAGE[h] EXCEPT !.doctors_ids = <<>>]

\* edit_doctor has just moved a doctor to another hospital: the doctor is in
\* the doctors_ids of the hospital it left and of the hospital it joined.
C16_Witness ==
    /\ Returned("edit_doctor", "Ok")
    /\ \E d \in Doctors, h \in Hospitals :
          /\ DOCTOR_STORAGE[d].hospital_id # h
          /\ Lists(HOSPITAL_STORAGE[h].doctors_ids, d)
          /\ Lists(HOSPITAL_STORAGE[DOCTOR_STORAGE[d].hospital_id].doctors_ids, d)

(***************************************************************************)
(* C17.  Every operation that establishes a relationship and returns       *)
(* success has updated both sides: a successful assign_patient_to_doctor   *)
(* leaves the patient in doctor.patient_ids, the doctor in                 *)
(* patient.doctors_ids, the patient in the patients_ids of the doctor's    *)
(* hospital and that hospital in patient.hospitals_ids; a successful       *)
(* add_doctor or edit_doctor leaves doctor.hospital_id naming the hospital *)
(* and the doctor in that hospital's doctors_ids.                          *)
(***************************************************************************)
C17_PairedUpdate ==
    /\ \A payload \in AddPatientToDoctors(Ids, Ids) :
          LET r == assign_patient_to_doctor(Store, payload)
              d == payload.doctor_id
              p == payload.patient_id
          IN  r.res.kind = "Ok" =>
                 LET h == r.st.doctors[d].hospital_id
                 IN  /\ Lists(r.st.doctors[d].patient_ids, p)
                     /\ Lists(r.st.patients[p].doctors_ids, d)
                     /\ h \in DOMAIN r.st.hospitals
                     /\ Lists(r.st.hospitals[h].patients_ids, p)
                     /\ Lists(r.st.patients[p].hospitals_ids, h)
    /\ \A payload \in DoctorPayloads(Ids) :
          LET r == add_doctor(Store, payload)
              d == ID_COUNTER
              h == payload.hospital_id
          IN  r.res.kind = "Ok" =>
                 /\ r.st.doctors[d].hospital_id = h
                 /\ Lists(r.st.hospitals[h].doctors_ids, d)
    /\ \A payload \in EditDoctors(Ids, Ids) :
          LET r == edit_doctor(Store, payload)
              d == payload.doctor_id
              h == payload.hospital_id
          IN  r.res.kind = "Ok" =>
                 /\ r.st.doctors[d].hospital_id = h
                 /\ Lists(r.st.hospitals[h].doctors_ids, d)

\* Every patient of every doctor of a store is a patient of that doctor's
\* hospital.
PatientsOfDoctorsInHospital(s) ==
    \A d \in DOMAIN s.doctors :
        \A p \in Range(s.doctors[d].patient_ids) :
            /\ s.doctors[d].hospital_id \in DOMAIN s.hospitals
            /\ Lists(s.hospitals[s.doctors[d].hospital_id].patients_ids, p)

(***************************************************************************)
(* C18.  A doctor's patients are the doctor's hospital's patients: for     *)
(* every doctor D and every patient id p in D.patient_ids, the hospital    *)
(* D.hospital_id lists p in its patients_ids; in every reachable state,    *)
(* and still after a further add_hospital and a further edit_doctor.       *)
(***************************************************************************)
C18_PatientsFollowDoctor ==
    /\ PatientsOfDoctorsInHospital(Store)
    /\ \A created \in HospitalPayloads :
          LET s1 == add_hospital(Store, created).st
          IN  \A payload \in EditDoctors(Doctors, DOMAIN s1.hospitals) :
                 PatientsOfDoctorsInHospital(edit_doctor(s1, payload).st)

\* One step keeps every id of every map and extends every relationship list
\* at its end.
C19_GrowthStep ==
    /\ Hospitals \subseteq Hospitals'
    /\ Doctors \subseteq Doctors'
    /\ Patients \subseteq Patients'
    /\ \A h \in Hospitals :
          /\ IsPrefix(HOSPITAL_STORAGE[h].patients_ids, HOSPITAL_STORAGE'[h].patients_ids)
          /\ IsPrefix(HOSPITAL_STORAGE[h].doctors_ids, HOSPITAL_STORAGE'[h].doctors_ids)
    /\ \A d \in Doctors :
          IsPrefix(DOCTOR_STORAGE[d].patient_ids, DOCTOR_STORAGE'[d].patient_ids)
    /\ \A p \in Patients :
          IsPrefix(PATIENT_STORAGE[p].doctors_ids, PATIENT_STORAGE'[p].doctors_ids)

(***************************************************************************)
(* C19.  Monotonic growth: an id once in the hospital, doctor or patient   *)
(* map stays in that map, and every relationship list                      *)
(* (hospital.patients_ids, hospital.doctors_ids, doctor.patient_ids,       *)
(* patient.doctors_ids) before an operation is a prefix of the list after  *)
(* it, so nothing once listed is ever removed.                             *)
(***************************************************************************)
C19_MonotonicGrowth == [][C19_GrowthStep]_vars

\* A list that already held an entry has just been extended: add_doctor has
\* attached a second doctor to a hospital, which lists the earlier doctor
\* first and the new one after it.
C19_Witness ==
    /\ Returned("add_doctor", "Ok")
    /\ \E h \in Hospitals :
          /\ Len(HOSPITAL_STORAGE[h].doctors_ids) = 2
          /\ HOSPITAL_STORAGE[h].doctors_ids[1] < HOSPITAL_STORAGE[h].doctors_ids[2]
          /\ HOSPITAL_STORAGE[h].doctors_ids[2] = ID_COUNTER - 1

(***************************************************************************)
(* C20.  In every reachable state every stored hospital, doctor and        *)
(* patient has a non-empty password: no create succeeds with an empty      *)
(* password.                                                               *)
(***************************************************************************)
C20_NoEmptyPassword ==
    /\ \A h \in Hospitals : HOSPITAL_STORAGE[h].password # ""
    /\ \A d \in Doctors : DOCTOR_STORAGE[d].password # ""
    /\ \A p \in Patients : PATIENT_STORAGE[p].password # ""

\* The message names the kind and the id of the missing entity.
NamesMissing(msg, kind, id) ==
    StrContains(ToLowercase(msg), kind \o " of id: " \o ToString(id) \o " ")

(***************************************************************************)
(* C21.  Every NotFound error identifies the entity that was actually      *)
(* missing: when assign_patient_to_doctor, update_patient_history,         *)
(* get_patient_info or edit_doctor fails because the doctor id is unknown  *)
(* the error names kind doctor and that doctor id; when it fails because   *)
(* the patient id (the hospital id, for edit_doctor) is unknown it names   *)
(* kind patient (hospital) and that id.                                    *)
(***************************************************************************)
C21_NotFoundNamesTheMissing ==
    /\ \A payload \in AddPatientToDoctors(Ids, Ids) :
          LET r == assign_patient_to_doctor(Store, payload)
          IN  r.res.kind = "NotFound" =>
                 IF payload.doctor_id \notin Doctors
                 THEN NamesMissing(r.res.msg, "doctor", payload.doctor_id)
                 ELSE NamesMissing(r.res.msg, "patient", payload.patient_id)
    /\ \A payload \in PatientHistoryUpdates(Ids, Ids), now \in Times :
          LET r == update_patient_history(Store, payload, now)
          IN  r.res.kind = "NotFound" =>
                 IF payload.doctor_id \notin Doctors
                 THEN NamesMissing(r.res.msg, "doctor", payload.doctor_id)
                 ELSE NamesMissing(r.res.msg, "patient", payload.patient_id)
    /\ \A payload \in AccessPayloads(Ids, Ids) :
          LET r == get_patient_info(Store, payload)
          IN  r.res.kind = "NotFound" =>
                 IF payload.doctor_id \notin Doctors
                 THEN NamesMissing(r.res.msg, "doctor", payload.doctor_id)
                 ELSE NamesMissing(r.res.msg, "patient", payload.patient_id)
    /\ \A payload \in EditDoctors(Ids, Ids) :
          LET r == edit_doctor(Store, payload)
          IN  r.res.kind = "NotFound" =>
                 IF payload.doctor_id \notin Doctors
                 THEN NamesMissing(r.res.msg, "doctor", payload.doctor_id)
                 ELSE NamesMissing(r.res.msg, "hospital", payload.hospital_id)

\* The character of str at place i, as a string.
CharAt(str, i) == SubSeq(str, i, i)

\* The search occurs in the name when letter case is ignored.
MatchesIgnoringCase(name, search) ==
    \E i \in 1..(Len(name) - Len(search) + 1) :
        \A j \in 1..Len(search) :
            LowerChar(CharAt(name, i + j - 1)) = LowerChar(CharAt(search, j))

\* The hospitals whose name matches the search.
Matching(search) ==
    {h \in Hospitals : MatchesIgnoringCase(HOSPITAL_STORAGE[h].name, search)}

\* The result lists exactly the hospitals `ids`, each once, each as stored
\* but for the password.
ReturnsExactly(r, ids) ==
    /\ r.res.kind = "Ok"
    /\ Len(r.res.value) = Cardinality(ids)
    /\ {r.res.value[i].id : i \in 1..Len(r.res.value)} = ids
    /\ \A i \in 1..Len(r.res.value) :
          r.res.value[i] =
              [HOSPITAL_STORAGE[r.res.value[i].id] EXCEPT !.password = "-"]

(***************************************************************************)
(* C22.  Listing and search never return an empty sequence.                *)
(* get_all_hospitals returns NotFound exactly when the hospital map is     *)
(* empty and otherwise every stored hospital; get_hospital_by_name returns *)
(* NotFound exactly when no stored hospital's name matches the query       *)
(* (substring, letter case ignored) and otherwise exactly the matching     *)
(* hospitals.  Neither changes the store.                                  *)
(***************************************************************************)
C22_ListingNeverEmpty ==
    /\ LET r == get_all_hospitals(Store)
       IN  /\ r.st = Store
           /\ IF Hospitals = {}
              THEN r.res.kind = "NotFound"
              ELSE ReturnsExactly(r, Hospitals)
    /\ \A search \in Searches \cup {"", "Ann", "nN", "aB", "a"} :
          LET r == get_hospital_by_name(Store, search)
          IN  /\ r.st = Store
              /\ IF Matching(search) = {}
                 THEN r.res.kind = "NotFound"
                 ELSE ReturnsExactly(r, Matching(search))

\* A search has just returned one of two stored hospitals: the other one's
\* name does not match.
C22_Witness ==
    /\ Returned("get_hospital_by_name", "Ok")
    /\ Len(last.value) = 1
    /\ Cardinality(Hospitals) = 2
    /\ \E h \in Hospitals : HOSPITAL_STORAGE[h].name # last.value[1].name

\* What the checks of a doctor acting on a patient yield, in their order:
\* the kind of the first check that fails, "Ok" when none does.  `last_ok`
\* is the outcome of the fourth check.
FirstFailure(d, doctor_password, p, last_ok) ==
    IF d \notin Doctors THEN "NotFound"
    ELSE IF DOCTOR_STORAGE[d].password # doctor_password THEN "Unauthorized"
    ELSE IF p \notin Patients THEN "NotFound"
    ELSE IF ~last_ok THEN "Unauthorized"
    ELSE "Ok"

DoctorPasswordMsg == "Doctor Access unauthorized, password does not match, try again"
HospitalPasswordMsg == "Hospital access unauthorized, password does not match, try again"

(***************************************************************************)
(* C23.  Checks short-circuit in a fixed order and the first failing check *)
(* determines the error.  assign_patient_to_doctor,                        *)
(* update_patient_history, get_patient_info: doctor exists (NotFound),     *)
(* doctor password (Unauthorized), patient exists (NotFound), then patient *)
(* password or doctor-patient link (Unauthorized).  edit_doctor: doctor    *)
(* exists, doctor password, hospital exists, hospital password.            *)
(* add_doctor: hospital exists, hospital password, payload validation.     *)
(***************************************************************************)
C23_FirstFailingCheck ==
    /\ \A payload \in AddPatientToDoctors(Ids, Ids) :
          LET r == assign_patient_to_doctor(Store, payload)
              d == payload.doctor_id
              p == payload.patient_id
          IN  /\ r.res.kind =
                    FirstFailure(d, payload.doctor_password, p,
                        p \in Patients /\
                        PATIENT_STORAGE[p].password = payload.patient_password)
              /\ (d \in Doctors /\ DOCTOR_STORAGE[d].password # payload.doctor_password)
                    => r.res.msg = DoctorPasswordMsg
    /\ \A payload \in PatientHistoryUpdates(Ids, Ids), now \in Times :
          LET r == update_patient_history(Store, payload, now)
              d == payload.doctor_id
              p == payload.patient_id
          IN  /\ r.res.kind =
                    FirstFailure(d, payload.doctor_password, p,
                        p \in Patients /\ Lists(PATIENT_STORAGE[p].doctors_ids, d))
              /\ (d \in Doctors /\ DOCTOR_STORAGE[d].password # payload.doctor_password)
                    => r.res.msg = DoctorPasswordMsg
    /\ \A payload \in AccessPayloads(Ids, Ids) :
          LET r == get_patient_info(Store, payload)
              d == payload.doctor_id
              p == payload.patient_id
          IN  /\ r.res.kind =
                    FirstFailure(d, payload.doctor_password, p,
                        p \in Patients /\ Lists(PATIENT_STORAGE[p].doctors_ids, d))
              /\ (d \in Doctors /\ DOCTOR_STORAGE[d].password # payload.doctor_password)
                    => r.res.msg = DoctorPasswordMsg
    /\ \A payload \in EditDoctors(Ids, Ids) :
          LET r == edit_doctor(Store, payload)
              d == payload.doctor_id
              h == payload.hospital_id
          IN  /\ r.res.kind =
                    IF d \notin Doctors THEN "NotFound"
                    ELSE IF DOCTOR_STORAGE[d].password # payload.doctor_password
                    THEN "Unauthorized"
                    ELSE IF h \notin Hospitals THEN "NotFound"
                    ELSE IF HOSPITAL_STORAGE[h].password # payload.hospital_password
                    THEN "Unauthorized"
                    ELSE "Ok"
              /\ r.res.kind = "Unauthorized" =>
                    r.res.msg =
                        IF DOCTOR_STORAGE[d].password # payload.doctor_password
                        THEN DoctorPasswordMsg
                        ELSE HospitalPasswordMsg
    /\ \A payload \in DoctorPayloads(Ids) :
          LET r == add_doctor(Store, payload)
              h == payload.hospital_id
          IN  r.res.kind =
                 IF h \notin Hospitals THEN "NotFound"
                 ELSE IF HOSPITAL_STORAGE[h].password # payload.hospital_password
                 THEN "Unauthorized"
                 ELSE IF Len(payload.name) < 3 \/ Len(payload.password) < 4
                 THEN "InvalidPayload"
                 ELSE "Ok"

\* An assignment with a wrong doctor password and a patient id that is
\* unknown (no patient is stored at all) has just been refused as
\* Unauthorized.
C23_Witness ==
    /\ Returned("assign_patient_to_doctor", "Unauthorized")
    /\ last.msg = DoctorPasswordMsg
    /\ Doctors # {}
    /\ Patients = {}

\* The ids each relationship field holds are keys of the map they refer to.
C24_Integrity ==
    /\ \A h \in Hospitals :
          /\ Range(HOSPITAL_STORAGE[h].doctors_ids) \subseteq Doctors
          /\ Range(HOSPITAL_STORAGE[h].patients_ids) \subseteq Patients
    /\ \A d \in Doctors :
          /\ Range(DOCTOR_STORAGE[d].patient_ids) \subseteq Patients
          /\ DOCTOR_STORAGE[d].hospital_id \in Hospitals
    /\ \A p \in Patients : Range(PATIENT_STORAGE[p].doctors_ids) \subseteq Doctors

(***************************************************************************)
(* C24.  Referential integrity: every id in a hospital's doctors_ids is    *)
(* the key of a stored doctor, every id in a hospital's patients_ids and   *)
(* in a doctor's patient_ids the key of a stored patient, every id in a    *)
(* patient's doctors_ids the key of a stored doctor, and every doctor's    *)
(* hospital_id the key of a stored hospital; hence assign_patient_to_doctor*)
(* never returns the NotFound of add_patient_to_hospital.                  *)
(***************************************************************************)
C24_ReferentialIntegrity ==
    /\ C24_Integrity
    /\ \A payload \in AddPatientToDoctors(Ids, Ids) :
          LET r == assign_patient_to_doctor(Store, payload)
          IN  ~StrContains(r.res.msg, "hospital of id: ")

\* A doctor that edit_doctor attached a second time has just been assigned
\* a patient: every relationship field holds an id.
C24_Witness ==
    /\ Returned("assign_patient_to_doctor", "Ok")
    /\ \E d \in Doctors, p \in Patients :
          /\ Lists(DOCTOR_STORAGE[d].patient_ids, p)
          /\ Lists(PATIENT_STORAGE[p].doctors_ids, d)
          /\ Lists(HOSPITAL_STORAGE[DOCTOR_STORAGE[d].hospital_id].patients_ids, p)
          /\ Len(HOSPITAL_STORAGE[DOCTOR_STORAGE[d].hospital_id].doctors_ids) = 2

\* A successful create stores the password it was given.
C25_CreateKeepsPassword ==
    /\ \A payload \in HospitalPayloads :
          LET r == add_hospital(Store, payload)
          IN  r.res.kind = "Ok" =>
                 r.st.hospitals[ID_COUNTER].password = payload.password
    /\ \A payload \in PatientPayloads :
          LET r == add_patient(Store, payload)
          IN  r.res.kind = "Ok" =>
                 r.st.patients[ID_COUNTER].password = payload.password
    /\ \A payload \in DoctorPayloads(Ids) :
          LET r == add_doctor(Store, payload)
          IN  r.res.kind = "Ok" =>
                 r.st.doctors[ID_COUNTER].password = payload.password

\* One step changes no stored password.
C25_PasswordStep ==
    /\ \A h \in Hospitals : HOSPITAL_STORAGE'[h].password = HOSPITAL_STORAGE[h].password
    /\ \A d \in Doctors : DOCTOR_STORAGE'[d].password = DOCTOR_STORAGE[d].password
    /\ \A p \in Patients : PATIENT_STORAGE'[p].password = PATIENT_STORAGE[p].password

(***************************************************************************)
(* C25.  Passwords are immutable: a create stores the password supplied    *)
(* and no operation changes a stored password, so after any sequence of    *)
(* operations every hospital's, doctor's and patient's stored password is  *)
(* the one supplied when it was created.                                   *)
(***************************************************************************)
C25_PasswordsImmutable == []C25_CreateKeepsPassword /\ [][C25_PasswordStep]_vars

\* edit_doctor has just succeeded on a doctor whose password differs from
\* its hospital's, and the records have been renamed since their creation.
C25_Witness ==
    /\ Returned("edit_doctor", "Ok")
    /\ \E d \in Doctors :
          /\ DOCTOR_STORAGE[d].password = "pass"
          /\ HOSPITAL_STORAGE[DOCTOR_STORAGE[d].hospital_id].password = ""
          /\ DOCTOR_STORAGE[d].name = "ab"
          /\ HOSPITAL_STORAGE[DOCTOR_STORAGE[d].hospital_id].name = "ab"

\* The result is no InvalidPayload, or it is the validation failure of a
\* create whose payload is invalid.
OnlyValidationFails(r, invalid) ==
    r.res.kind = "InvalidPayload" =>
        /\ r.res.op \in Creates
        /\ r.res.msg = ValidationMsg
        /\ invalid
        /\ r.st = Store

(***************************************************************************)
(* C26.  The storage-write error branches are unreachable: the id a create *)
(* would allocate is not yet a key of any map, and InvalidPayload is       *)
(* returned only for a payload validation failure in add_hospital,         *)
(* add_patient or add_doctor, never as 'Could not add/update/edit'.        *)
(***************************************************************************)
C26_WriteErrorsUnreachable ==
    /\ ID_COUNTER \notin Hospitals \cup Doctors \cup Patients
    /\ \A payload \in HospitalPayloads :
          OnlyValidationFails(add_hospital(Store, payload),
                              Len(payload.name) < 3 \/ Len(payload.address) < 3)
    /\ \A payload \in PatientPayloads :
          OnlyValidationFails(add_patient(Store, payload),
                              Len(payload.name) < 3 \/ Len(payload.history) < 6)
    /\ \A payload \in DoctorPayloads(Ids) :
          OnlyValidationFails(add_doctor(Store, payload),
                              Len(payload.name) < 3 \/ Len(payload.password) < 4)
    /\ \A payload \in EditHospitalPayloads(Ids) :
          edit_hospital(Store, payload).res.kind # "InvalidPayload"
    /\ \A payload \in EditPatientPayloads(Ids) :
          edit_patient(Store, payload).res.kind # "InvalidPayload"
    /\ \A payload \in EditDoctors(Ids, Ids) :
          edit_doctor(Store, payload).res.kind # "InvalidPayload"
    /\ \A payload \in AddPatientToDoctors(Ids, Ids) :
          assign_patient_to_doctor(Store, payload).res.kind # "InvalidPayload"
    /\ \A payload \in PatientHistoryUpdates(Ids, Ids), now \in Times :
          update_patient_history(Store, payload, now).res.kind # "InvalidPayload"

\* Creates and an update have written to the maps, and the create that has
\* just failed failed on its payload.
C26_Witness ==
    /\ Returned("add_doctor", "InvalidPayload")
    /\ last.msg = ValidationMsg
    /\ Hospitals # {}
    /\ \E d \in Doctors : Len(HOSPITAL_STORAGE[DOCTOR_STORAGE[d].hospital_id].doctors_ids) = 2

\* An assignment succeeds only on both stored passwords, and a doctor reads
\* or extends a patient's history only when the patient lists the doctor.
C27_Gates ==
    /\ \A payload \in AddPatientToDoctors(Ids, Ids) :
          assign_patient_to_doctor(Store, payload).res.kind = "Ok" =>
              /\ payload.doctor_id \in Doctors
              /\ payload.patient_id \in Patients
              /\ payload.doctor_password = DOCTOR_STORAGE[payload.doctor_id].password
              /\ payload.patient_password = PATIENT_STORAGE[payload.patient_id].password
    /\ \A payload \in AccessPayloads(Ids, Ids) :
          get_patient_info(Store, payload).res.kind = "Ok" =>
              Lists(PATIENT_STORAGE[payload.patient_id].doctors_ids, payload.doctor_id)
    /\ \A payload \in PatientHistoryUpdates(Ids, Ids), now \in Times :
          update_patient_history(Store, payload, now).res.kind = "Ok" =>
              Lists(PATIENT_STORAGE[payload.patient_id].doctors_ids, payload.doctor_id)

\* How often patient p lists doctor d in the maps given.
Listed(patients, p, d) ==
    IF p \in DOMAIN patients THEN Count(patients[p].doctors_ids, d) ELSE 0

\* A step after which a patient lists a doctor once more than before is a
\* successful assign_patient_to_doctor of that doctor and that patient,
\* called with the doctor's and the patient's stored passwords.
C27_LinkStep ==
    \A d \in Ids, p \in Ids :
        Listed(PATIENT_STORAGE', p, d) # Listed(PATIENT_STORAGE, p, d) =>
            /\ d \in Doctors
            /\ p \in Patients
            /\ last'.op = "assign_patient_to_doctor"
            /\ last'.kind = "Ok"
            /\ LET payload == [doctor_id |-> d, patient_id |-> p,
                               doctor_password |-> DOCTOR_STORAGE[d].password,
                               patient_password |-> PATIENT_STORAGE[p].password]
               IN  /\ assign_patient_to_doctor(Store, payload).st = Store'
                   /\ assign_patient_to_doctor(Store, payload).res = last'

(***************************************************************************)
(* C27.  Patient consent precedes access: doctor D's id is in patient P's  *)
(* doctors_ids only if an earlier assign_patient_to_doctor call for (D, P) *)
(* supplied both D's and P's stored passwords (no patient lists a doctor   *)
(* at creation, and only such a call adds one); get_patient_info and       *)
(* update_patient_history by D on P succeed only when P lists D, so never  *)
(* before such a call.                                                     *)
(***************************************************************************)
C27_ConsentPrecedesAccess == []C27_Gates /\ [][C27_LinkStep]_vars

\* A doctor has just extended the history of a patient that consented to
\* it: the patient lists the doctor and both have passwords.
C27_Witness ==
    /\ Returned("update_patient_history", "Ok")
    /\ \E d \in Doctors, p \in Patients :
          /\ Lists(PATIENT_STORAGE[p].doctors_ids, d)
          /\ PATIENT_STORAGE[p].password = "pass"
          /\ DOCTOR_STORAGE[d].password = "pass"
          /\ Len(PATIENT_STORAGE[p].history) > Len("healthy")
====
